---- MODULE Spec2Model ----
(***************************************************************************)
(* Alterrain game server: the tick loop, the per-player command queues,    *)
(* the connection registry with its idle timers, and the World it drives.  *)
(* Server is src/unnamed/part_000 (class Server), World is                 *)
(* src/app/game/world.js.  Node runs every handler to completion, so each  *)
(* handler (timer callback, socket event) is one action.                   *)
(***************************************************************************)
EXTENDS Integers, Sequences, FiniteSets, TLC

\* ---------------------------------------------------------------- bounds
MaxCmds == 2           \* commands enqueued in one run of the model
MaxTicks == 2          \* firings of the tick timer in one run of the model
MaxStarts == 1         \* calls of Server.start in one run of the model
ClockStep == 20        \* seconds that pass in one Clock action
Width == 2             \* WorldConfig.WIDTH of the modelled world
Height == 2            \* WorldConfig.HEIGHT of the modelled world
MaxInteractions == 5   \* interactions with one tree in one run of the model
MaxUnlockers == 2      \* largest number of unlockers a chest requires
MaxRestarts == 1       \* calls of Server.start on a scheduler that runs
MaxInFlight == 2       \* messages on their way to a client about one object

\* ------------------------------------------------------ program constants
DefaultTimeout == 40   \* ServerConfig.TIMEOUT_INTERVAL || 40
MOVEMENT == 1
ALTER_TILE == 2
COMMUNICATION == 3
INTERACTION == 4
GRASS == 0
SAND == 1
STONE == 2
WATER == 3
TREE == 0              \* objectMap value of a tree
Undefined == -1        \* an objectMap cell that was never assigned
MinDurability == 1     \* util.integerInRange(1, 4) of the Tree constructor
MaxDurability == 4
MinLoot == 1           \* util.integerInRange(1, 2) of Tree.onInteraction
MaxLoot == 2
DOWN == 2              \* the directions Client.sendMove is called with
LEFT == 4
RIGHT == 6
UP == 8
BRIDGE == 4            \* the tile the client offers besides grass, sand, stone
TILE_SIZE == 32        \* pixels of a tile on the client

SocketIds == {"sa", "sb"}
KnownTypes == {MOVEMENT, ALTER_TILE, COMMUNICATION, INTERACTION}
\* a cmd.type that is none of the Commands
UnknownType == CHOOSE t \in 0 .. 9 : t \notin KnownTypes
\* the command types the modelled clients send
InputTypes == {MOVEMENT, UnknownType}
\* values of ServerConfig.TIMEOUT_INTERVAL the model is started with
ConfigValues == {0 - 1, 0, ClockStep}

Cells == (0 .. Width - 1) \X (0 .. Height - 1)

VARIABLES
  configTimeout,      \* ServerConfig.TIMEOUT_INTERVAL
  timeoutInterval,    \* Server.timeoutInterval
  connectedPlayers,   \* Server.connectedPlayers: socket id -> entry
  playerInputQueues,  \* Server.playerInputQueues, in Map insertion order
  lastPlayerID,       \* Server.lastPlayerID
  gameTick,           \* Server.gameTick
  outgoingBuffer,     \* Server.outgoingBuffer
  intervals,          \* number of armed setInterval tick timers
  serverTime,         \* getSeverTime(), kept up to zero or not zero
  stepCount,          \* World.stepCount
  players,            \* World.players: player id -> position
  tileMap,            \* World.tileMap
  objectMap,          \* World.objectMap
  sockStatus,         \* socket id -> "fresh" | "connected" | "closed"
  idleTimers,         \* socket id -> remaining seconds of each pending timeout
  idleHandle,         \* socket id -> socket.idleTimeout names a pending timeout
  playerEvent,        \* socket id -> the playerEvent object of its handlers
  hung,               \* a handler is in a loop that never ends
  exited,             \* the process has exited on an uncaught exception
  nextCmd,            \* number of commands enqueued so far, plus one
  idle,               \* socket id -> seconds since its last inbound command
  outbox,             \* messages emitted by the last handler
  tickLog,            \* what the last handler did if it was a tick, in order
  departed,           \* the playerEvent object of the last handler's disconnect
  lastOp,             \* the last handler that ran, with its input
  call,               \* the last call made on the World, with its outcome
  mover,              \* a character of the World: its tile and its move
  tree,               \* a Tree object and the loot it has granted
  chest,              \* a Chest object and the sprite the client shows
  disk,               \* the snapshot file the World is initialised with
  playerMap,          \* gameplayState.playerMap of one client: id -> sprite
  player,             \* the id of the sprite its gameplayState.player is
  received            \* the last playerEvent message that client handled

serverVars == <<configTimeout, timeoutInterval, connectedPlayers,
                playerInputQueues, lastPlayerID, gameTick, outgoingBuffer,
                intervals, serverTime>>
worldVars == <<stepCount, players, tileMap, objectMap>>
socketVars == <<sockStatus, idleTimers, idleHandle, playerEvent>>
ghostVars == <<hung, exited, nextCmd, idle, outbox, tickLog, departed,
               lastOp>>
entityVars == <<call, mover, tree, chest, disk, playerMap, player, received>>
vars == <<serverVars, worldVars, socketVars, ghostVars, entityVars>>

\* ------------------------------------------------------------ helpers
Min(a, b) == IF a < b THEN a ELSE b
Max(a, b) == IF a > b THEN a ELSE b
RemoveAt(s, i) == SubSeq(s, 1, i - 1) \o SubSeq(s, i + 1, Len(s))
Front(s) == SubSeq(s, 1, Len(s) - 1)

NoEvent(s) == [id |-> s, playerId |-> 0, joinTime |-> 0, disconnectTime |-> 0,
               x |-> 0 - 1, y |-> 0 - 1]
\* pid: the player the handler acted for, 0 when none; arg: the command type
\* of an input, the idle seconds of the socket of a timeout or disconnect
Op(name, s, p, a) == [op |-> name, sock |-> s, pid |-> p, arg |-> a]
Ev(name, p, n) == [ev |-> name, pid |-> p, n |-> n]
\* x, y, d: the arguments; threw: the call raised; value: what it returned
Call(fn, x, y, d, threw, value) ==
  [fn |-> fn, x |-> x, y |-> y, d |-> d, threw |-> threw, value |-> value]
NoCall == Call("none", 0, 0, 0, FALSE, FALSE)
NoMover == [x |-> 0, y |-> 0, moving |-> FALSE, tx |-> 0, ty |-> 0]
\* standing: the client's sprite of the tree stands; hits: the hitpoints the
\* client is yet to be told of
NoTree == [durability |-> 0, initial |-> 0, interactions |-> 0, grants |-> 0,
           gained |-> 0, standing |-> FALSE, hits |-> <<>>]
\* kind: "none" no file is named, "missing" the file cannot be read,
\* "corrupt" it is no JSON, "null" it holds the JSON null, "snapshot" it
\* holds the tile map tiles
File(kind, tiles) == [kind |-> kind, tiles |-> tiles]
NoFile == File("none", <<>>)
\* frameOpen: the client's sprite of the chest shows the open frame; told:
\* the outcomes the client is yet to be told of
NoChest == [required |-> 0, unlockedBy |-> {}, count |-> 0, opened |-> FALSE,
            frameOpen |-> FALSE, interactors |-> {}, by |-> 0, state |-> 0,
            told |-> <<>>]
\* the argument of a client's playerEvent handler; defined: the message came
\* with a payload
Message(defined, playerId, disconnectTime, x, y) ==
  [defined |-> defined, playerId |-> playerId,
   disconnectTime |-> disconnectTime, x |-> x, y |-> y]
\* name: the message handled, "none" when none was; threw: its handler
\* raised; joined: the ids of the joins handled before it
NoMessage == [name |-> "none", event |-> Message(FALSE, 0, 0, 0, 0),
              threw |-> FALSE, joined |-> {}]
\* gameplayState.player: id 0 when it is null or undefined; inMap: the sprite
\* it names is playerMap[id]
NoPlayer == [id |-> 0, inMap |-> FALSE]

\* ------------------------------------------------------------ World
\* shared/constant.js TileData: 0 for a tile that can be walked on
TileData(tile) ==
  IF tile \in {GRASS, SAND, STONE} THEN 0
  ELSE IF tile = WATER THEN 1
  ELSE Undefined

\* m[x][y] where row x exists: undefined when the row has no cell y
At(m, x, y) == IF <<x, y>> \in DOMAIN m THEN m[<<x, y>>] ELSE Undefined

\* m[x] is undefined, so that reading m[x][y] raises a TypeError
NoRow(m, x) == \A c \in DOMAIN m : c[1] # x

\* (1 << (d / 2 - 1)) & 0x0f, the shift count taken as << takes it
DirBit(d) ==
  IF d < 1 THEN 0
  ELSE IF d < 2 THEN 1
  ELSE 2 ^ ((d \div 2) - 1) % 16

\* checkPassage that takes water, whose TileData is positive, as walkable
checkPassageAllowsWater(tm, x, y, bit) == TileData(At(tm, x, y)) >= 0

checkPassage(tm, x, y, bit) == TileData(At(tm, x, y)) = 0

\* checkObject that tests the object id with > instead of >=
checkObjectSkipsIdZero(om, x, y, bit) == At(om, x, y) > 0

checkObject(om, x, y, bit) == At(om, x, y) >= 0

\* isPassable that looks at the tile only
isPassableIgnoresObjects(tm, om, x, y, d) == checkPassage(tm, x, y, DirBit(d))

\* the value isPassable returns when it returns
isPassable(tm, om, x, y, d) ==
  checkPassage(tm, x, y, DirBit(d)) /\ ~checkObject(om, x, y, DirBit(d))

\* a call of World.isPassable: it raises the TypeError of checkPassage's
\* this.tileMap[x][y] when the tile map has no row x, and the TypeError of
\* checkObject's this.objectMap[x][y], which is read when checkPassage
\* holds, when the object map has no row x
isPassableCall(tm, om, x, y, d) ==
  IF NoRow(tm, x) THEN [threw |-> TRUE, value |-> FALSE]
  ELSE IF checkPassage(tm, x, y, DirBit(d)) /\ NoRow(om, x)
    THEN [threw |-> TRUE, value |-> FALSE]
  ELSE [threw |-> FALSE, value |-> isPassable(tm, om, x, y, d)]

\* addPlayer that leaves the World without the player
addPlayerDropped(ps, x, y, playerId) == ps

addPlayer(ps, x, y, playerId) ==
  [p \in DOMAIN ps \cup {playerId} |->
     IF p = playerId THEN <<x, y>> ELSE ps[p]]

removePlayer(ps, playerId) ==
  [p \in DOMAIN ps \ {playerId} |-> ps[p]]

\* network/descriptor.js describeAll: one description per player
describeAll(ps) == DOMAIN ps

\* ------------------------------------------------------------ Server
\* this.timeoutInterval = ServerConfig.TIMEOUT_INTERVAL || 40
ConstructTimeout(cfg) == IF cfg = 0 THEN DefaultTimeout ELSE cfg

Connected == {s \in SocketIds : sockStatus[s] = "connected"}

\* the next id taken from the number of registered connections
nextPlayerIDFromOnlineCount(last) == Cardinality(DOMAIN connectedPlayers) + 1

\* let playerId = ++this.lastPlayerID
nextPlayerID(last) == last + 1

\* resetIdleTimeout that returns at once when the socket has a pending timeout
resetIdleTimeoutKeepsPending(s) ==
  IF idleHandle[s] THEN <<idleTimers[s], TRUE>>
  ELSE IF timeoutInterval > 0
    THEN <<Append(idleTimers[s], timeoutInterval), TRUE>>
    ELSE <<idleTimers[s], FALSE>>

\* resetIdleTimeout that arms a timeout without clearTimeout of the pending one
resetIdleTimeoutNoClear(s) ==
  IF timeoutInterval > 0
    THEN <<Append(idleTimers[s], timeoutInterval), TRUE>>
    ELSE <<idleTimers[s], FALSE>>

\* resetIdleTimeout: the pair <<idleTimers[s], idleHandle[s]>> afterwards
resetIdleTimeout(s) ==
  LET cleared == IF idleHandle[s] THEN Front(idleTimers[s])
                 ELSE idleTimers[s]
  IN IF timeoutInterval > 0
       THEN <<Append(cleared, timeoutInterval), TRUE>>
       ELSE <<cleared, FALSE>>

QueueIndex(qs, playerId) ==
  CHOOSE k \in 1 .. Len(qs) : qs[k].playerId = playerId

\* queueInputForPlayer that puts the command at the head of the queue
queueInputForPlayerAtHead(qs, cmd, playerId) ==
  LET k == QueueIndex(qs, playerId)
  IN [qs EXCEPT ![k].commands = <<cmd>> \o @]

queueInputForPlayer(qs, cmd, playerId) ==
  LET k == QueueIndex(qs, playerId)
  IN [qs EXCEPT ![k].commands = Append(@, cmd)]

\* the numbers of the commands waiting in the queues
QueuedCommands(qs) ==
  {qs[k].commands[i].n : <<k, i>> \in
     {<<k, i>> \in (1 .. Len(qs)) \X (1 .. MaxCmds) :
        i <= Len(qs[k].commands)}}

\* commands.forEach(cmd => this.world.processInput(cmd)) on one queue
\* from command i on; the command numbered failing throws when it is called
RECURSIVE RunCommands(_, _, _)
RunCommands(cmds, i, failing) ==
  IF i > Len(cmds) THEN [log |-> <<>>, threw |-> FALSE]
  ELSE IF cmds[i].n = failing
    THEN [log |-> <<Ev("throw", cmds[i].pid, cmds[i].n)>>, threw |-> TRUE]
    ELSE LET r == RunCommands(cmds, i + 1, failing)
         IN [log |-> <<Ev("apply", cmds[i].pid, cmds[i].n)>> \o r.log,
             threw |-> r.threw]

\* Server.step walking the queues from the entry inserted last to the first
RECURSIVE DrainQueuesNewestFirst(_, _, _)
DrainQueuesNewestFirst(qs, k, failing) ==
  IF k > Len(qs) THEN [queues |-> qs, log |-> <<>>, threw |-> FALSE]
  ELSE LET at == Len(qs) - k + 1
           r == RunCommands(qs[at].commands, 1, failing)
       IN IF r.threw
            THEN [queues |-> qs, log |-> r.log, threw |-> TRUE]
            ELSE LET rest == DrainQueuesNewestFirst(
                               [qs EXCEPT ![at].commands = <<>>], k + 1,
                               failing)
                 IN [queues |-> rest.queues, log |-> r.log \o rest.log,
                     threw |-> rest.threw]

\* Server.step that calls the commands of the queues and leaves them queued
RECURSIVE DrainQueuesKeepsCommands(_, _, _)
DrainQueuesKeepsCommands(qs, k, failing) ==
  IF k > Len(qs) THEN [queues |-> qs, log |-> <<>>, threw |-> FALSE]
  ELSE LET r == RunCommands(qs[k].commands, 1, failing)
       IN IF r.threw
            THEN [queues |-> qs, log |-> r.log, threw |-> TRUE]
            ELSE LET rest == DrainQueuesKeepsCommands(qs, k + 1, failing)
                 IN [queues |-> rest.queues, log |-> r.log \o rest.log,
                     threw |-> rest.threw]

\* this.playerInputQueues.forEach(...) of Server.step, from entry k on
RECURSIVE DrainQueues(_, _, _)
DrainQueues(qs, k, failing) ==
  IF k > Len(qs) THEN [queues |-> qs, log |-> <<>>, threw |-> FALSE]
  ELSE LET r == RunCommands(qs[k].commands, 1, failing)
       IN IF r.threw
            THEN [queues |-> qs, log |-> r.log, threw |-> TRUE]
            ELSE LET rest == DrainQueues([qs EXCEPT ![k].commands = <<>>],
                                         k + 1, failing)
                 IN [queues |-> rest.queues, log |-> r.log \o rest.log,
                     threw |-> rest.threw]

\* Server.step(dt): the queues are processed, then World.step runs
step(qs, failing) ==
  LET r == DrainQueues(qs, 1, failing)
  IN IF r.threw THEN r
     ELSE [r EXCEPT !.log = Append(@, Ev("worldStep", 0, 0))]

\* ------------------------------------------------------------ Init
\* a generated world: grass on the walkable cells and under the trees, water
\* everywhere else
WorldOf(walkable, trees) ==
  [tiles |-> [c \in Cells |-> IF c \in walkable \cup trees THEN GRASS
                              ELSE WATER],
   objects |-> [c \in Cells |-> IF c \in trees THEN TREE ELSE Undefined]]

InitWorlds ==
  {WorldOf({<<0, 0>>}, {<<0, Height - 1>>}),
   WorldOf({}, {<<0, Height - 1>>})}

Init ==
  /\ configTimeout \in ConfigValues
  /\ timeoutInterval = ConstructTimeout(configTimeout)
  /\ connectedPlayers = <<>>
  /\ playerInputQueues = <<>>
  /\ lastPlayerID = 0
  /\ gameTick = 0
  /\ outgoingBuffer = <<>>
  /\ intervals = 0
  /\ serverTime = 0
  /\ stepCount = 0
  /\ players = <<>>
  /\ \E w \in InitWorlds : tileMap = w.tiles /\ objectMap = w.objects
  /\ sockStatus = [s \in SocketIds |-> "fresh"]
  /\ idleTimers = [s \in SocketIds |-> <<>>]
  /\ idleHandle = [s \in SocketIds |-> FALSE]
  /\ playerEvent = [s \in SocketIds |-> NoEvent(s)]
  /\ hung = FALSE
  /\ exited = FALSE
  /\ nextCmd = 1
  /\ idle = [s \in SocketIds |-> 0]
  /\ outbox = <<>>
  /\ tickLog = <<>>
  /\ departed = NoEvent("")
  /\ lastOp = Op("init", "", 0, 0)
  /\ call = NoCall
  /\ mover = NoMover
  /\ tree = NoTree
  /\ chest = NoChest
  /\ disk = NoFile
  /\ playerMap = <<>>
  /\ player = NoPlayer
  /\ received = NoMessage

\* ------------------------------------------------------------ actions
\* Server.start: arms one more tick timer and restarts the server clock
Start ==
  /\ ~hung
  /\ ~exited
  /\ intervals < MaxStarts
  /\ intervals' = intervals + 1
  /\ serverTime' = 0
  /\ outbox' = <<>>
  /\ tickLog' = <<>>
  /\ departed' = NoEvent("")
  /\ lastOp' = Op("start", "", 0, 0)
  /\ UNCHANGED <<configTimeout, timeoutInterval, connectedPlayers,
                 playerInputQueues, lastPlayerID, gameTick, outgoingBuffer>>
  /\ UNCHANGED <<worldVars, socketVars, hung, exited, nextCmd, idle>>
  /\ UNCHANGED entityVars

\* the setInterval callback of Server.start; the command numbered failing
\* (none when 0) throws when it is called: nothing catches the exception, so
\* the callback ends there and the process exits on the uncaught exception,
\* with its timers and its sockets
Tick(failing) ==
  /\ ~hung
  /\ ~exited
  /\ intervals > 0
  /\ stepCount < MaxTicks
  /\ stepCount' = stepCount + 1
  /\ LET r == step(playerInputQueues, failing)
     IN /\ playerInputQueues' = r.queues
        /\ exited' = r.threw
        /\ IF r.threw
             THEN /\ tickLog' = r.log
                  /\ outbox' = <<>>
                  /\ UNCHANGED <<gameTick, outgoingBuffer>>
             ELSE LET send == DOMAIN connectedPlayers # {}
                      buffer == Append(outgoingBuffer,
                                       [t |-> gameTick,
                                        d |-> describeAll(players)])
                  IN /\ outbox' =
                          IF send
                            THEN <<[ev |-> "update", to |-> Connected,
                                    payload |-> <<buffer>>]>>
                            ELSE <<>>
                     /\ outgoingBuffer' = IF send THEN <<>>
                                          ELSE outgoingBuffer
                     /\ tickLog' = r.log
                          \o (IF send THEN <<Ev("emit", 0, 0)>> ELSE <<>>)
                          \o <<Ev("inc", 0, 0)>>
                     /\ gameTick' = gameTick + 1
  /\ departed' = NoEvent("")
  /\ lastOp' = Op("tick", "", 0, 0)
  /\ UNCHANGED <<configTimeout, timeoutInterval, connectedPlayers,
                 lastPlayerID, intervals, serverTime>>
  /\ UNCHANGED <<players, tileMap, objectMap, socketVars, hung, nextCmd, idle>>
  /\ UNCHANGED entityVars

\* io.on('connection'): onPlayerConnected, then onPlayerJoinWorld
Connect(s) ==
  /\ ~hung
  /\ ~exited
  /\ intervals > 0
  /\ sockStatus[s] = "fresh"
  /\ LET playerId == nextPlayerID(lastPlayerID)
         timer == resetIdleTimeout(s)
         spawn == {c \in Cells : isPassable(tileMap, objectMap, c[1], c[2], 2)}
     IN /\ lastPlayerID' = playerId
        /\ playerInputQueues' =
             Append(playerInputQueues,
                    [playerId |-> playerId, commands |-> <<>>])
        /\ connectedPlayers' =
             [t \in DOMAIN connectedPlayers \cup {s} |->
                IF t = s THEN [state |-> "new", playerId |-> playerId]
                ELSE connectedPlayers[t]]
        /\ sockStatus' = [sockStatus EXCEPT ![s] = "connected"]
        /\ idleTimers' = [idleTimers EXCEPT ![s] = timer[1]]
        /\ idleHandle' = [idleHandle EXCEPT ![s] = timer[2]]
        /\ idle' = [idle EXCEPT ![s] = 0]
        /\ lastOp' = Op("connect", s, playerId, 0)
        /\ IF spawn = {}
             THEN \* the do-while of onPlayerJoinWorld never ends
                  /\ hung' = TRUE
                  /\ playerEvent' =
                       [playerEvent EXCEPT ![s] =
                          [NoEvent(s) EXCEPT !.playerId = playerId,
                                             !.joinTime = serverTime]]
                  /\ outbox' = <<>>
                  /\ UNCHANGED players
             ELSE \E c \in spawn :
                  LET event == [id |-> s, playerId |-> playerId,
                                joinTime |-> serverTime, disconnectTime |-> 0,
                                x |-> c[1], y |-> c[2]]
                      added == addPlayer(players, c[1], c[2], playerId)
                  IN /\ hung' = FALSE
                     /\ playerEvent' = [playerEvent EXCEPT ![s] = event]
                     /\ players' = added
                     /\ outbox' =
                          <<[ev |-> "initWorld", to |-> {s},
                             payload |-> <<[players |-> describeAll(added),
                                            id |-> playerId]>>],
                            [ev |-> "playerEvent", to |-> Connected \ {s},
                             payload |-> <<event>>]>>
  /\ tickLog' = <<>>
  /\ departed' = NoEvent("")
  /\ UNCHANGED <<configTimeout, timeoutInterval, gameTick, outgoingBuffer,
                 intervals, serverTime>>
  /\ UNCHANGED <<stepCount, tileMap, objectMap, exited, nextCmd>>
  /\ UNCHANGED entityVars

\* onPlayerDisconnected that resets the World's players and the registry
\* when the socket is not registered
onPlayerDisconnectedPurges(s) ==
  IF s \in DOMAIN connectedPlayers
    THEN <<removePlayer(players, connectedPlayers[s].playerId),
           [t \in DOMAIN connectedPlayers \ {s} |-> connectedPlayers[t]]>>
    ELSE <<(<<>>), (<<>>)>>

\* onPlayerDisconnected that deletes the registry entry only
onPlayerDisconnectedKeepsEntity(s) ==
  <<players, [t \in DOMAIN connectedPlayers \ {s} |-> connectedPlayers[t]]>>

\* Server.onPlayerDisconnected: the pair <<players, connectedPlayers>> afterwards
onPlayerDisconnected(s) ==
  <<IF s \in DOMAIN connectedPlayers
      THEN removePlayer(players, connectedPlayers[s].playerId)
      ELSE players,
    [t \in DOMAIN connectedPlayers \ {s} |-> connectedPlayers[t]]>>

\* the socket.on('disconnect') handler registered by onPlayerConnected
DisconnectHandler(s) ==
  LET after == onPlayerDisconnected(s)
  IN \* playerEvent.disconnectTime = this.getSeverTime()
     /\ departed' = [playerEvent[s] EXCEPT !.disconnectTime = serverTime]
     \* socket.broadcast.emit('playerEvent') is called without the event
     /\ outbox' = <<[ev |-> "playerEvent", to |-> Connected \ {s},
                     payload |-> <<>>]>>
     /\ players' = after[1]
     /\ connectedPlayers' = after[2]
     /\ sockStatus' = [sockStatus EXCEPT ![s] = "closed"]
     \* the socket and its playerEvent object are not used again
     /\ playerEvent' = [playerEvent EXCEPT ![s] = NoEvent(s)]
     /\ idle' = [idle EXCEPT ![s] = 0]

\* the client closes its socket
Disconnect(s) ==
  /\ ~hung
  /\ ~exited
  /\ sockStatus[s] = "connected"
  /\ DisconnectHandler(s)
  /\ tickLog' = <<>>
  /\ lastOp' = Op("disconnect", s, playerEvent[s].playerId, idle[s])
  /\ UNCHANGED <<configTimeout, timeoutInterval, playerInputQueues,
                 lastPlayerID, gameTick, outgoingBuffer, intervals, serverTime>>
  /\ UNCHANGED <<stepCount, tileMap, objectMap, idleTimers, idleHandle>>
  /\ UNCHANGED <<hung, exited, nextCmd, entityVars>>

\* a pending idle timeout of socket s expires: Server.onPlayerTimeout, whose
\* socket.disconnect() runs the disconnect handler of a socket still open
Timeout(s) ==
  /\ ~hung
  /\ ~exited
  /\ \E i \in DOMAIN idleTimers[s] :
       /\ idleTimers[s][i] = 0
       /\ idleTimers' = [idleTimers EXCEPT ![s] = RemoveAt(@, i)]
       /\ idleHandle' = [idleHandle EXCEPT
                           ![s] = @ /\ i # Len(idleTimers[s])]
  /\ tickLog' = <<>>
  /\ lastOp' = Op("timeout", s,
                   IF sockStatus[s] = "connected" THEN playerEvent[s].playerId
                   ELSE 0,
                   idle[s])
  /\ IF sockStatus[s] = "connected"
       THEN DisconnectHandler(s)
       ELSE /\ outbox' = <<>>
            /\ departed' = NoEvent("")
            /\ UNCHANGED <<playerEvent, players, connectedPlayers, sockStatus,
                           idle>>
  /\ UNCHANGED <<configTimeout, timeoutInterval, playerInputQueues,
                 lastPlayerID, gameTick, outgoingBuffer, intervals, serverTime>>
  /\ UNCHANGED <<stepCount, tileMap, objectMap>>
  /\ UNCHANGED <<hung, exited, nextCmd, entityVars>>

\* onReceivedInput whose default branch does not return
onReceivedInputQueuesUnknown(s, type) ==
  /\ ~hung
  /\ ~exited
  /\ sockStatus[s] = "connected"
  /\ nextCmd <= MaxCmds
  /\ LET playerId == playerEvent[s].playerId
         timer == resetIdleTimeout(s)
         command == [pid |-> playerId, n |-> nextCmd, type |-> type]
     IN /\ idleTimers' = [idleTimers EXCEPT ![s] = timer[1]]
        /\ idleHandle' = [idleHandle EXCEPT ![s] = timer[2]]
        /\ idle' = [idle EXCEPT ![s] = 0]
        /\ lastOp' = Op("input", s, playerId, type)
        /\ playerInputQueues' =
             queueInputForPlayer(playerInputQueues, command, playerId)
        /\ nextCmd' = nextCmd + 1
  /\ outbox' = <<>>
  /\ tickLog' = <<>>
  /\ departed' = NoEvent("")
  /\ UNCHANGED <<configTimeout, timeoutInterval, connectedPlayers,
                 lastPlayerID, gameTick, outgoingBuffer, intervals, serverTime>>
  /\ UNCHANGED <<worldVars, sockStatus, playerEvent, hung, exited, entityVars>>

\* socket.on('inputCommand'): Server.onReceivedInput
onReceivedInput(s, type) ==
  /\ ~hung
  /\ ~exited
  /\ sockStatus[s] = "connected"
  /\ nextCmd <= MaxCmds
  /\ LET playerId == playerEvent[s].playerId
         timer == resetIdleTimeout(s)
         command == [pid |-> playerId, n |-> nextCmd, type |-> type]
     IN /\ idleTimers' = [idleTimers EXCEPT ![s] = timer[1]]
        /\ idleHandle' = [idleHandle EXCEPT ![s] = timer[2]]
        /\ idle' = [idle EXCEPT ![s] = 0]
        /\ lastOp' = Op("input", s, playerId, type)
        /\ IF type \in KnownTypes
             THEN /\ playerInputQueues' =
                       queueInputForPlayer(playerInputQueues, command,
                                           playerId)
                  /\ nextCmd' = nextCmd + 1
             ELSE UNCHANGED <<playerInputQueues, nextCmd>>
  /\ outbox' = <<>>
  /\ tickLog' = <<>>
  /\ departed' = NoEvent("")
  /\ UNCHANGED <<configTimeout, timeoutInterval, connectedPlayers,
                 lastPlayerID, gameTick, outgoingBuffer, intervals, serverTime>>
  /\ UNCHANGED <<worldVars, sockStatus, playerEvent, hung, exited, entityVars>>

\* ClockStep seconds pass: pending timeouts get closer to expiry
Clock ==
  /\ ~hung
  /\ ~exited
  /\ intervals > 0
  /\ idleTimers' = [s \in SocketIds |->
                      [i \in DOMAIN idleTimers[s] |->
                         Max(0, idleTimers[s][i] - ClockStep)]]
  /\ idle' = [s \in SocketIds |->
                IF sockStatus[s] = "connected"
                  THEN Min(idle[s] + ClockStep, DefaultTimeout)
                  ELSE idle[s]]
  /\ serverTime' = ClockStep
  /\ outbox' = <<>>
  /\ tickLog' = <<>>
  /\ departed' = NoEvent("")
  /\ lastOp' = Op("clock", "", 0, 0)
  /\ UNCHANGED <<configTimeout, timeoutInterval, connectedPlayers,
                 playerInputQueues, lastPlayerID, gameTick, outgoingBuffer,
                 intervals>>
  /\ UNCHANGED <<worldVars, sockStatus, idleHandle, playerEvent>>
  /\ UNCHANGED <<hung, exited, nextCmd, entityVars>>

Next ==
  \/ Start
  \/ \E failing \in {0} \cup QueuedCommands(playerInputQueues) : Tick(failing)
  \/ Clock
  \/ \E s \in SocketIds : Connect(s)
  \/ \E s \in SocketIds : Disconnect(s)
  \/ \E s \in SocketIds : Timeout(s)
  \/ \E s \in SocketIds, type \in InputTypes : onReceivedInput(s, type)

Spec == Init /\ [][Next]_vars

\* time passes, and a timeout that is due is run by the event loop
FairSpec ==
  /\ Spec
  /\ WF_vars(Clock)
  /\ \A s \in SocketIds : WF_vars(Timeout(s))

\* ------------------------------------------------------------ lifecycle
\* a stop of the scheduler is requested while it runs: Server has no method
\* that calls clearInterval(this.intervalGameTick), so the timer stays armed
Stop ==
  /\ ~hung
  /\ ~exited
  /\ intervals > 0
  /\ outbox' = <<>>
  /\ tickLog' = <<>>
  /\ departed' = NoEvent("")
  /\ lastOp' = Op("stop", "", 0, 0)
  /\ UNCHANGED <<serverVars, worldVars, socketVars, hung, exited, nextCmd, idle,
                 entityVars>>

\* Server.onPlayerDisconnected(socket) is called with a socket that has no
\* entry in connectedPlayers
DisconnectUntracked(s) ==
  /\ ~hung
  /\ ~exited
  /\ s \notin DOMAIN connectedPlayers
  /\ LET after == onPlayerDisconnected(s)
     IN /\ players' = after[1]
        /\ connectedPlayers' = after[2]
  /\ outbox' = <<>>
  /\ tickLog' = <<>>
  /\ departed' = NoEvent("")
  /\ lastOp' = Op("disconnectUntracked", s, 0, 0)
  /\ UNCHANGED <<configTimeout, timeoutInterval, playerInputQueues,
                 lastPlayerID, gameTick, outgoingBuffer, intervals, serverTime>>
  /\ UNCHANGED <<stepCount, tileMap, objectMap, socketVars>>
  /\ UNCHANGED <<hung, exited, nextCmd, idle, entityVars>>

\* Server.start is called while the scheduler runs: there is no test of
\* this.intervalGameTick, so setInterval arms one more tick timer, and the
\* handle of the one armed before is overwritten
StartAgain ==
  /\ ~hung
  /\ ~exited
  /\ intervals > 0
  /\ intervals >= MaxStarts
  /\ intervals < MaxStarts + MaxRestarts
  /\ intervals' = intervals + 1
  /\ serverTime' = 0
  /\ outbox' = <<>>
  /\ tickLog' = <<>>
  /\ departed' = NoEvent("")
  /\ lastOp' = Op("start", "", 0, 0)
  /\ UNCHANGED <<configTimeout, timeoutInterval, connectedPlayers,
                 playerInputQueues, lastPlayerID, gameTick, outgoingBuffer>>
  /\ UNCHANGED <<worldVars, socketVars, hung, exited, nextCmd, idle>>
  /\ UNCHANGED entityVars

LifecycleNext ==
  \/ Start
  \/ StartAgain
  \/ Tick(0)
  \/ Stop
  \/ \E s \in SocketIds : Connect(s)
  \/ \E s \in SocketIds : Disconnect(s)
  \/ \E s \in SocketIds : DisconnectUntracked(s)

LifecycleSpec == Init /\ [][LifecycleNext]_vars

\* ------------------------------------------------------------ World calls
\* the tile types of initTilemap
Tiles == {GRASS, SAND, STONE, WATER}
\* what a cell of the object map holds
ObjectIds == {Undefined, TREE}
\* the coordinates isPassable is called with: the cells and a ring around
Coords == (0 - 1 .. Width) \X (0 - 1 .. Height)
\* the direction arguments isPassable is called with
Directions == 0 .. 9

\* a World with one tile type and one object id everywhere but on cell c
PatchWorld(base, baseObj, c, tile, obj) ==
  [tiles |-> [e \in Cells |-> IF e = c THEN tile ELSE base],
   objects |-> [e \in Cells |-> IF e = c THEN obj ELSE baseObj]]

WorldInputs ==
  {PatchWorld(w[1], w[2], w[3], w[4], w[5]) :
     w \in Tiles \X ObjectIds \X Cells \X Tiles \X ObjectIds}

\* a Server that was constructed and has not been started
Quiet ==
  /\ configTimeout = ClockStep
  /\ timeoutInterval = ConstructTimeout(configTimeout)
  /\ connectedPlayers = <<>>
  /\ playerInputQueues = <<>>
  /\ lastPlayerID = 0
  /\ gameTick = 0
  /\ outgoingBuffer = <<>>
  /\ intervals = 0
  /\ serverTime = 0
  /\ stepCount = 0
  /\ players = <<>>
  /\ sockStatus = [s \in SocketIds |-> "fresh"]
  /\ idleTimers = [s \in SocketIds |-> <<>>]
  /\ idleHandle = [s \in SocketIds |-> FALSE]
  /\ playerEvent = [s \in SocketIds |-> NoEvent(s)]
  /\ hung = FALSE
  /\ exited = FALSE
  /\ nextCmd = 1
  /\ idle = [s \in SocketIds |-> 0]
  /\ outbox = <<>>
  /\ tickLog = <<>>
  /\ departed = NoEvent("")
  /\ lastOp = Op("init", "", 0, 0)

PassableInit ==
  /\ Quiet
  /\ \E w \in WorldInputs : tileMap = w.tiles /\ objectMap = w.objects
  /\ call = NoCall
  /\ mover = NoMover
  /\ tree = NoTree
  /\ chest = NoChest
  /\ disk = NoFile
  /\ playerMap = <<>>
  /\ player = NoPlayer
  /\ received = NoMessage

\* world.isPassable(x, y, d) is called, once on each World
CallIsPassable(x, y, d) ==
  /\ call = NoCall
  /\ LET r == isPassableCall(tileMap, objectMap, x, y, d)
     IN call' = Call("isPassable", x, y, d, r.threw, r.value)
  /\ UNCHANGED <<serverVars, worldVars, socketVars, ghostVars>>
  /\ UNCHANGED <<mover, tree, chest, disk, playerMap, player,
                 received>>

PassableNext ==
  \E c \in Coords, d \in Directions : CallIsPassable(c[1], c[2], d)

PassableSpec == PassableInit /\ [][PassableNext]_vars

\* ------------------------------------------------------------ tile changes
\* the tile types a tile map is meant to hold
RecognizedTiles == Tiles \cup {BRIDGE}
\* a tileId that is no tile type
UnknownTile == CHOOSE t \in 0 .. 9 : t \notin RecognizedTiles
\* the tileId arguments changeTile is called with
TileIds == RecognizedTiles \cup {UnknownTile}

\* isValidTile that takes the first coordinate past the edge as valid
isValidTileInclusive(x, y) == x >= 0 /\ x <= Width /\ y >= 0 /\ y <= Height

isValidTile(x, y) == x >= 0 /\ x < Width /\ y >= 0 /\ y < Height

\* World.changeTile(x, y, tileId): the tile map afterwards and the tiles of
\* the worldUpdate it emits; this.tileMap[x][y] = tileId raises a TypeError
\* when the tile map has no row x
changeTile(tm, x, y, tileId) ==
  IF ~isValidTile(x, y)
    THEN [tiles |-> tm, report |-> <<>>, threw |-> FALSE]
  ELSE IF NoRow(tm, x)
    THEN [tiles |-> tm, report |-> <<>>, threw |-> TRUE]
  ELSE [tiles |-> [tm EXCEPT ![<<x, y>>] = tileId],
        report |-> <<<<x, y, tileId>>>>, threw |-> FALSE]

TileInit ==
  /\ Quiet
  /\ \E w \in WorldInputs : tileMap = w.tiles /\ objectMap = w.objects
  /\ call = NoCall
  /\ mover = NoMover
  /\ tree = NoTree
  /\ chest = NoChest
  /\ disk = NoFile
  /\ playerMap = <<>>
  /\ player = NoPlayer
  /\ received = NoMessage

\* world.changeTile(x, y, tileId) is called, once on each World
ChangeTile(x, y, tileId) ==
  /\ call = NoCall
  /\ LET r == changeTile(tileMap, x, y, tileId)
     IN /\ tileMap' = r.tiles
        /\ outbox' = IF r.report = <<>> THEN <<>>
                     ELSE <<[ev |-> "worldUpdate", to |-> Connected,
                             payload |-> <<[tiles |-> r.report]>>]>>
        /\ call' = Call("changeTile", x, y, tileId, r.threw, r.report # <<>>)
  /\ UNCHANGED <<serverVars, stepCount, players, objectMap, socketVars>>
  /\ UNCHANGED <<hung, exited, nextCmd, idle, tickLog, departed, lastOp>>
  /\ UNCHANGED <<mover, tree, chest, disk, playerMap, player,
                 received>>

TileNext ==
  \E c \in Coords, tileId \in TileIds : ChangeTile(c[1], c[2], tileId)

TileSpec == TileInit /\ [][TileNext]_vars

\* ------------------------------------------------------------ world data
\* the worlds initTilemap and initObjectMap make: trees on grass tiles only
GeneratedWorlds ==
  {w \in WorldInputs :
     \A c \in Cells : w.objects[c] = TREE => w.tiles[c] = GRASS}

\* the files initWorldData is given
Files ==
  {File(k, <<>>) : k \in {"none", "missing", "corrupt", "null"}}
    \cup {File("snapshot", w.tiles) : w \in WorldInputs}

\* loadFromDiskData without the try around JSON.parse(fs.readFileSync(...))
loadFromDiskDataNoCatch(file) ==
  IF file.kind = "snapshot"
    THEN [found |-> TRUE, tiles |-> file.tiles, threw |-> FALSE]
    ELSE [found |-> FALSE, tiles |-> <<>>,
          threw |-> file.kind \in {"missing", "corrupt"}]

\* World.loadFromDiskData(filename): the parsed map data, null (not found)
\* when reading or parsing failed or the file holds null
loadFromDiskData(file) ==
  IF file.kind = "snapshot"
    THEN [found |-> TRUE, tiles |-> file.tiles, threw |-> FALSE]
    ELSE [found |-> FALSE, tiles |-> <<>>, threw |-> FALSE]

\* a World object before initWorldData: no tile map and no object map
LoadInit ==
  /\ Quiet
  /\ tileMap = <<>>
  /\ objectMap = <<>>
  /\ call = NoCall
  /\ mover = NoMover
  /\ tree = NoTree
  /\ chest = NoChest
  /\ disk \in Files
  /\ playerMap = <<>>
  /\ player = NoPlayer
  /\ received = NoMessage

\* World.initWorldData(filename); value is the success it returns
InitWorldData ==
  /\ call = NoCall
  /\ LET named == disk.kind # "none"
         r == loadFromDiskData(disk)
     IN IF named /\ r.threw
          THEN /\ call' = Call("initWorldData", 0, 0, 0, TRUE, FALSE)
               /\ outbox' = <<>>
               /\ UNCHANGED <<tileMap, objectMap>>
        ELSE IF named /\ r.found
          THEN \* return success = true, before initObjectMap
               /\ tileMap' = r.tiles
               /\ call' = Call("initWorldData", 0, 0, 0, FALSE, TRUE)
               /\ outbox' = <<>>
               /\ UNCHANGED objectMap
        ELSE \E w \in GeneratedWorlds :
               /\ tileMap' = w.tiles
               /\ objectMap' = w.objects
               \* saveWorldDataToDisk: fs.writeFile of the tile map
               /\ outbox' = <<[ev |-> "writeFile", to |-> {},
                               payload |-> <<w.tiles>>]>>
               /\ call' = Call("initWorldData", 0, 0, 0, FALSE, FALSE)
  /\ UNCHANGED <<serverVars, stepCount, players, socketVars>>
  /\ UNCHANGED <<hung, exited, nextCmd, idle, tickLog, departed, lastOp>>
  /\ UNCHANGED <<mover, tree, chest, disk, playerMap, player,
                 received>>

\* world.isPassable(x, y, d) is called on the initialised World, as the
\* spawn search of onPlayerJoinWorld does
IsPassableAfterInit(x, y, d) ==
  /\ call.fn = "initWorldData"
  /\ ~call.threw
  /\ LET r == isPassableCall(tileMap, objectMap, x, y, d)
     IN call' = Call("isPassable", x, y, d, r.threw, r.value)
  /\ UNCHANGED <<serverVars, worldVars, socketVars, ghostVars>>
  /\ UNCHANGED <<mover, tree, chest, disk, playerMap, player,
                 received>>

LoadNext ==
  \/ InitWorldData
  \/ \E c \in Cells : IsPassableAfterInit(c[1], c[2], DOWN)

LoadSpec == LoadInit /\ [][LoadNext]_vars

\* ------------------------------------------------------------ moves
ArrowKeys == {DOWN, LEFT, RIGHT, UP}

\* the tile next to (x, y) in direction d
Destination(x, y, d) ==
  IF d = DOWN THEN <<x, y + 1>>
  ELSE IF d = UP THEN <<x, y - 1>>
  ELSE IF d = LEFT THEN <<x - 1, y>>
  ELSE <<x + 1, y>>

\* a character standing on cell c
Standing(c) == [x |-> c[1], y |-> c[2], moving |-> FALSE,
                tx |-> c[1], ty |-> c[2]]

MoveInit ==
  /\ Quiet
  /\ \E w \in WorldInputs :
       /\ tileMap = w.tiles
       /\ objectMap = w.objects
       /\ \E c \in Cells :
            /\ isPassable(w.tiles, w.objects, c[1], c[2], DOWN)
            /\ mover = Standing(c)
  /\ call = NoCall
  /\ tree = NoTree
  /\ chest = NoChest
  /\ disk = NoFile
  /\ playerMap = <<>>
  /\ player = NoPlayer
  /\ received = NoMessage

\* the command of makeMoveCommand(player, d) is called by processInput: a
\* character that is not in a move begins one when the destination isPassable
MoveCommand(d) ==
  /\ LET dest == Destination(mover.x, mover.y, d)
         r == isPassableCall(tileMap, objectMap, dest[1], dest[2], d)
         begins == ~mover.moving /\ ~r.threw /\ r.value
     IN /\ mover' = IF begins
                      THEN [mover EXCEPT !.moving = TRUE, !.tx = dest[1],
                                         !.ty = dest[2]]
                      ELSE mover
        /\ call' = Call("move", dest[1], dest[2], d,
                        ~mover.moving /\ r.threw, begins)
  /\ UNCHANGED <<serverVars, worldVars, socketVars, ghostVars, tree, chest,
                 disk, playerMap, player,
                 received>>

\* World.step: character.update() completes the move of the character
WorldStep ==
  /\ mover' = IF mover.moving THEN Standing(<<mover.tx, mover.ty>>)
              ELSE mover
  /\ call' = Call("step", mover'.x, mover'.y, 0, FALSE, mover.moving)
  /\ UNCHANGED <<serverVars, worldVars, socketVars, ghostVars, tree, chest,
                 disk, playerMap, player,
                 received>>

MoveNext ==
  \/ \E d \in ArrowKeys : MoveCommand(d)
  \/ WorldStep

MoveSpec == MoveInit /\ [][MoveNext]_vars

\* ------------------------------------------------------------ objects
\* the players that interact with the chest
EntityIds == 1 .. MaxUnlockers + 1

\* a client whose gameplayState.player is the sprite of player 1
LocalPlayer == [id |-> 1, inMap |-> TRUE]

\* Tree.onInteraction(player), the loot drawn being amount
onInteraction(tr, amount) ==
  LET durability == tr.durability - 1
      granted == durability <= 0
  IN [tr EXCEPT !.durability = durability,
                !.interactions = @ + 1,
                !.grants = IF granted THEN @ + 1 ELSE @,
                !.gained = IF granted THEN amount ELSE 0]

\* GameplayState.playSoundFrom(sfx, x, y) raises a TypeError on
\* this.player.x when this.player is null or undefined
playSoundFromThrows(pl) == pl.id = 0

\* GameplayState.cutTree(tileX, tileY, hitpoints) on a client whose
\* this.player is pl: whether the tree sprite still stands afterwards, and
\* whether the call raised; playSoundFrom comes before treeObj.cutDown()
cutTree(pl, standing, hitpoints) ==
  IF hitpoints > 0
    THEN [standing |-> standing, threw |-> playSoundFromThrows(pl)]
  ELSE IF hitpoints = 0
    THEN IF playSoundFromThrows(pl)
           THEN [standing |-> standing, threw |-> TRUE]
           ELSE [standing |-> FALSE, threw |-> FALSE]
  ELSE [standing |-> standing, threw |-> FALSE]

\* the interaction behaviour of a Chest with player e: the chest afterwards,
\* state being what the clients are told (0 a new unlocker, 1 nothing
\* happened, 2 the last lock opened)
chestOnInteraction(ch, e) ==
  IF ch.opened \/ e \in ch.unlockedBy THEN [ch EXCEPT !.state = 1]
  ELSE LET count == ch.count + 1
           last == count >= ch.required
       IN [ch EXCEPT !.unlockedBy = @ \cup {e},
                     !.count = count,
                     !.opened = last,
                     !.state = IF last THEN 2 ELSE 0]

\* interactWithChest that opens the sprite for every new unlocker
interactWithChestOpensOnUnlock(pl, frameOpen, state) ==
  IF state = 2 \/ state = 0
    THEN [frameOpen |-> TRUE, threw |-> playSoundFromThrows(pl)]
    ELSE [frameOpen |-> frameOpen, threw |-> FALSE]

\* GameplayState.interactWithChest(tileX, tileY, state) on a client whose
\* this.player is pl: whether the chest sprite shows the open frame
\* afterwards, and whether the call raised; treasureChest.frame = 0 comes
\* before playSoundFrom
interactWithChest(pl, frameOpen, state) ==
  IF state = 2
    THEN [frameOpen |-> TRUE, threw |-> playSoundFromThrows(pl)]
    ELSE [frameOpen |-> frameOpen, threw |-> FALSE]

\* a client with or without a local player, a tree as the Tree constructor
\* leaves it with its sprite standing, and a closed chest
ObjectInit ==
  /\ Quiet
  /\ \E w \in InitWorlds : tileMap = w.tiles /\ objectMap = w.objects
  /\ call = NoCall
  /\ mover = NoMover
  /\ \E d \in MinDurability .. MaxDurability :
       tree = [NoTree EXCEPT !.durability = d, !.initial = d,
                             !.standing = TRUE]
  /\ \E k \in 1 .. MaxUnlockers : chest = [NoChest EXCEPT !.required = k]
  /\ disk = NoFile
  /\ player \in {NoPlayer, LocalPlayer}
  /\ playerMap = [p \in {player.id} \ {0} |->
                    <<0 * TILE_SIZE, 0 * TILE_SIZE>>]
  /\ received = NoMessage

\* a player interacts with the tree on the server: Tree.onInteraction, and
\* the hitpoints left are on their way to the client
InteractTree(amount) ==
  /\ tree.interactions < MaxInteractions
  /\ Len(tree.hits) < MaxInFlight
  /\ LET after == onInteraction(tree, amount)
     IN tree' = [after EXCEPT !.hits = Append(@, after.durability)]
  /\ call' = Call("tree", 0, 0, 0, FALSE, tree'.gained > 0)
  /\ UNCHANGED <<serverVars, worldVars, socketVars, ghostVars, mover, chest,
                 disk, playerMap, player,
                 received>>

\* the client is told the hitpoints of the tree: GameplayState.cutTree
CutTree ==
  /\ tree.hits # <<>>
  /\ LET r == cutTree(player, tree.standing, Head(tree.hits))
     IN /\ tree' = [tree EXCEPT !.standing = r.standing, !.hits = Tail(@)]
        /\ call' = Call("cutTree", 0, 0, Head(tree.hits), r.threw,
                        r.standing)
  /\ UNCHANGED <<serverVars, worldVars, socketVars, ghostVars, mover, chest,
                 disk, playerMap, player,
                 received>>

\* player e interacts with the chest on the server, and the outcome is on
\* its way to the client
InteractChest(e) ==
  /\ Len(chest.told) < MaxInFlight
  /\ LET after == chestOnInteraction(chest, e)
     IN chest' = [after EXCEPT !.told = Append(@, after.state),
                               !.interactors = @ \cup {e},
                               !.by = e]
  /\ call' = Call("chest", 0, 0, 0, FALSE, chest'.opened)
  /\ UNCHANGED <<serverVars, worldVars, socketVars, ghostVars, mover, tree,
                 disk, playerMap, player,
                 received>>

\* the client is told the outcome of an interaction with the chest:
\* GameplayState.interactWithChest
InteractWithChest ==
  /\ chest.told # <<>>
  /\ LET r == interactWithChest(player, chest.frameOpen, Head(chest.told))
     IN /\ chest' = [chest EXCEPT !.frameOpen = r.frameOpen,
                                  !.told = Tail(@)]
        /\ call' = Call("interactWithChest", 0, 0, Head(chest.told), r.threw,
                        r.frameOpen)
  /\ UNCHANGED <<serverVars, worldVars, socketVars, ghostVars, mover, tree,
                 disk, playerMap, player,
                 received>>

ObjectNext ==
  \/ \E amount \in MinLoot .. MaxLoot : InteractTree(amount)
  \/ CutTree
  \/ \E e \in EntityIds : InteractChest(e)
  \/ InteractWithChest

ObjectSpec == ObjectInit /\ [][ObjectNext]_vars

TypeOK ==
  /\ lastPlayerID \in 0 .. Cardinality(SocketIds)
  /\ gameTick \in 0 .. MaxTicks
  /\ stepCount \in gameTick .. MaxTicks
  /\ DOMAIN connectedPlayers \subseteq SocketIds
  /\ outgoingBuffer = <<>>

\* ------------------------------------------------------------ client
\* the player ids a client is told of
PlayerIds == 1 .. Cardinality(SocketIds)

\* the playerEvent messages a client receives: the event object of a join
\* (disconnectTime 0), the same object after playerEvent.disconnectTime was
\* set to a server time, and the message the disconnect handler emits
\* without an argument
PlayerEvents ==
  {Message(TRUE, p, t, c[1], c[2]) :
     p \in PlayerIds, t \in {0, ClockStep}, c \in Cells}
  \cup {Message(FALSE, 0, 0, 0, 0)}

\* the tiles the players listed in an initWorld message stand on
ListedCells == {<<0, 0>>, <<Width - 1, Height - 1>>}

\* the initWorld messages a client receives: players, the tile of each
\* player listed, id, the id of the client's own player, 0 when the message
\* has none, and solidObjects, whether the message has that key: the message
\* Server.onPlayerJoinWorld emits has players, tiles, trees, chests, id and
\* weather, and no solidObjects
InitWorldMessages ==
  {[players |-> f, id |-> i, solidObjects |-> FALSE] :
     f \in UNION {[S -> ListedCells] : S \in SUBSET PlayerIds},
     i \in {0} \cup PlayerIds}

\* GameplayState.generateSolidObjects(objectMap) raises a TypeError on
\* objectMap.length when objectMap is undefined
generateSolidObjectsThrows(defined) == ~defined

\* new Player(game, x * TILE_SIZE, y * TILE_SIZE, "player"): a sprite, kept
\* by the position it is at or is sent to
Sprite(x, y) == <<x * TILE_SIZE, y * TILE_SIZE>>

\* GameplayState.addNewPlayer: this.playerMap[id] = new Player(...)
addNewPlayer(pm, id, x, y) ==
  [p \in DOMAIN pm \cup {id} |-> IF p = id THEN Sprite(x, y) ELSE pm[p]]

\* GameplayState.removePlayer of the client: this.playerMap[id].destroy()
\* raises a TypeError when the map has no player id, else the id is deleted
destroyPlayer(pm, id) ==
  IF id \in DOMAIN pm
    THEN [playerMap |-> [p \in DOMAIN pm \ {id} |-> pm[p]], threw |-> FALSE]
    ELSE [playerMap |-> pm, threw |-> TRUE]

\* the playerEvent handler that takes every event for a join
onPlayerEventAlwaysAdds(pm, event) ==
  IF ~event.defined THEN [playerMap |-> pm, threw |-> TRUE]
  ELSE [playerMap |-> addNewPlayer(pm, event.playerId, event.x, event.y),
        threw |-> FALSE]

\* Client.socket.on('playerEvent', function (event) {...}): reading
\* event.disconnectTime raises a TypeError when event is undefined
onPlayerEvent(pm, event) ==
  IF ~event.defined THEN [playerMap |-> pm, threw |-> TRUE]
  ELSE IF event.disconnectTime # 0 THEN destroyPlayer(pm, event.playerId)
  ELSE [playerMap |-> addNewPlayer(pm, event.playerId, event.x, event.y),
        threw |-> FALSE]

\* the for loop of the initWorld handler: addNewPlayer for each player of
\* the list, of which ids are left
RECURSIVE addPlayersListed(_, _, _)
addPlayersListed(pm, listed, ids) ==
  IF ids = {} THEN pm
  ELSE LET p == CHOOSE q \in ids : \A r \in ids : q <= r
       IN addPlayersListed(addNewPlayer(pm, p, listed[p][1], listed[p][2]),
                           listed, ids \ {p})

\* GameplayState.movePlayer(id, x, y, d): this.playerMap[id].setDirection(d)
\* raises a TypeError when the map has no player id; able is what the
\* sprite's ableToMove() returns
movePlayer(pm, id, x, y, able) ==
  IF id \notin DOMAIN pm THEN [playerMap |-> pm, threw |-> TRUE]
  ELSE [playerMap |-> IF able THEN [pm EXCEPT ![id] = Sprite(x, y)] ELSE pm,
        threw |-> FALSE]

\* a sprite of playerMap is replaced or deleted: this.player goes on naming
\* the sprite it named
Unmapped(pl, ids) ==
  IF pl.id \in ids THEN [pl EXCEPT !.inMap = FALSE] ELSE pl

\* a client in the gameplay state that has been told of no player
ClientInit ==
  /\ Quiet
  /\ LET w == WorldOf({<<0, 0>>}, {<<0, Height - 1>>})
     IN tileMap = w.tiles /\ objectMap = w.objects
  /\ call = NoCall
  /\ mover = NoMover
  /\ tree = NoTree
  /\ chest = NoChest
  /\ disk = NoFile
  /\ playerMap = <<>>
  /\ player = NoPlayer
  /\ received = NoMessage

\* the ids of the joins the client has handled
Joined ==
  received.joined \cup
    (IF received.name = "playerEvent" /\ received.event.defined
        /\ received.event.disconnectTime = 0
       THEN {received.event.playerId} ELSE {})

\* the client handles the playerEvent message event
PlayerEvent(event) ==
  /\ LET r == onPlayerEvent(playerMap, event)
     IN /\ playerMap' = r.playerMap
        /\ player' = IF event.defined /\ ~r.threw
                       THEN Unmapped(player, {event.playerId})
                       ELSE player
        /\ received' = [name |-> "playerEvent", event |-> event,
                        threw |-> r.threw, joined |-> Joined]
  /\ UNCHANGED <<serverVars, worldVars, socketVars, ghostVars>>
  /\ UNCHANGED <<call, mover, tree, chest, disk>>

\* Client.socket.on('initWorld', function (data) {...}): the players listed
\* are added, then setPlayerReference(data.id) when data.id is set, where
\* this.player.enableArrowIcon() raises a TypeError when the map has no
\* player data.id; then generateTiles(data.tiles), and
\* generateSolidObjects(data.solidObjects), which raises when the message
\* has no solidObjects; the tile layers are not part of the state
OnInitWorld(data) ==
  /\ LET ids == DOMAIN data.players
         added == addPlayersListed(playerMap, data.players, ids)
         stale == Unmapped(player, ids)
     IN /\ playerMap' = added
        /\ player' = IF data.id = 0 THEN stale
                     ELSE [id |-> IF data.id \in DOMAIN added THEN data.id
                                  ELSE 0,
                           inMap |-> data.id \in DOMAIN added]
        /\ received' = [name |-> "initWorld",
                        event |-> Message(TRUE, data.id, 0, 0, 0),
                        threw |->
                          \/ data.id # 0 /\ data.id \notin DOMAIN added
                          \/ generateSolidObjectsThrows(data.solidObjects),
                        joined |-> Joined]
  /\ UNCHANGED <<serverVars, worldVars, socketVars, ghostVars>>
  /\ UNCHANGED <<call, mover, tree, chest, disk>>

\* Client.socket.on('playerUpdate', function (data) {...}): movePlayer
PlayerUpdate(id, x, y, able) ==
  /\ LET r == movePlayer(playerMap, id, x, y, able)
     IN /\ playerMap' = r.playerMap
        /\ received' = [name |-> "playerUpdate",
                        event |-> Message(TRUE, id, 0, 0, 0),
                        threw |-> r.threw, joined |-> Joined]
  /\ UNCHANGED <<serverVars, worldVars, socketVars, ghostVars>>
  /\ UNCHANGED <<call, mover, tree, chest, disk, player>>

ClientNext ==
  \/ \E event \in PlayerEvents : PlayerEvent(event)
  \/ \E data \in InitWorldMessages : OnInitWorld(data)
  \/ \E id \in PlayerIds, c \in Cells, able \in BOOLEAN :
       PlayerUpdate(id, c[1], c[2], able)

ClientSpec == ClientInit /\ [][ClientNext]_vars

\* ------------------------------------------------------------ claims
\* the numbers of a sequence of commands, in order
Numbers(cmds) == [i \in 1 .. Len(cmds) |-> cmds[i].n]

\* the events of a tick log in which a command is called
IsCall(e) == e.ev \in {"apply", "throw"}

\* the numbers of the commands of player p that a tick log applied, in order
AppliedOf(log, p) ==
  LET IsMine(e) == e.ev = "apply" /\ e.pid = p
      mine == SelectSeq(log, IsMine)
  IN [i \in 1 .. Len(mine) |-> mine[i].n]

HasEvent(log, name) == \E i \in 1 .. Len(log) : log[i].ev = name

\* C1: one Server.step applies the N commands pending in each player's queue,
\* in the order they were enqueued, and leaves every queue empty (so that a
\* second step with no enqueue in between applies nothing).
C1_StepDrainsEveryQueue ==
  [][lastOp'.op = "tick" =>
       \A k \in 1 .. Len(playerInputQueues) :
         /\ AppliedOf(tickLog', playerInputQueues[k].playerId)
              = Numbers(playerInputQueues[k].commands)
         /\ playerInputQueues'[k].commands = <<>>]_vars

\* C2: within one tick the commands of one player are called in arrival
\* order, and every command of a player with a smaller id is called before
\* any command of a player with a larger id.
C2_TickOrder ==
  \A i, j \in 1 .. Len(tickLog) :
    (i < j /\ IsCall(tickLog[i]) /\ IsCall(tickLog[j])) =>
      \/ tickLog[i].pid < tickLog[j].pid
      \/ tickLog[i].pid = tickLog[j].pid /\ tickLog[i].n < tickLog[j].n

\* a tick called the command of player 1 before the command of player 2
\* although the command of player 2 had arrived first
C2_Witness ==
  /\ lastOp.op = "tick"
  /\ Len(tickLog) >= 2
  /\ tickLog[1] = Ev("apply", 1, 2)
  /\ tickLog[2] = Ev("apply", 2, 1)

\* C3: every firing of the tick timer runs, in this order: the calls of the
\* queued commands, World.step, one payload handed to the broadcaster exactly
\* when a connection is registered, the increment of the tick count.
C3_TickSequence ==
  lastOp.op = "tick" =>
    LET n == Len(tickLog)
        sent == DOMAIN connectedPlayers # {}
        calls == IF sent THEN n - 3 ELSE n - 2
    IN /\ calls >= 0
       /\ \A i \in 1 .. calls : tickLog[i].ev = "apply"
       /\ tickLog[calls + 1].ev = "worldStep"
       /\ sent => tickLog[n - 1].ev = "emit"
       /\ tickLog[n].ev = "inc"
       /\ Len(outbox) = (IF sent THEN 1 ELSE 0)

\* C4: a failure raised by a command stays inside the tick: the commands of
\* every other player are still applied, World.step still runs, the broadcast
\* still happens and the tick count still advances.
C4_FailureContained ==
  [][lastOp'.op = "tick" =>
       /\ \A k \in 1 .. Len(playerInputQueues) :
            LET p == playerInputQueues[k].playerId
            IN (\A i \in 1 .. Len(tickLog') :
                  ~(tickLog'[i].ev = "throw" /\ tickLog'[i].pid = p))
               => AppliedOf(tickLog', p)
                    = Numbers(playerInputQueues[k].commands)
       /\ HasEvent(tickLog', "worldStep")
       /\ DOMAIN connectedPlayers # {} => HasEvent(tickLog', "emit")
       /\ gameTick' = gameTick + 1]_vars

RegisteredIds ==
  {connectedPlayers[s].playerId : s \in DOMAIN connectedPlayers}

\* C5: a registered connection that sends nothing is disconnected once the
\* idle-timeout interval has passed (or goes with the process, when that
\* exits), and the players listed in a broadcast are players of registered
\* connections only.
C5_IdleConnectionDisconnected ==
  /\ \A s \in SocketIds :
       (s \in DOMAIN connectedPlayers /\ timeoutInterval > 0)
         ~> \/ s \notin DOMAIN connectedPlayers
            \/ lastOp.op = "input" /\ lastOp.sock = s
            \/ exited
  /\ [](\A i \in 1 .. Len(outbox) :
          outbox[i].ev = "update" =>
            \A j \in 1 .. Len(outbox[i].payload[1]) :
              outbox[i].payload[1][j].d \subseteq RegisteredIds)

\* C6: with ServerConfig.TIMEOUT_INTERVAL zero or negative no idle timeout is
\* ever armed and no timeout ever runs.
C6_NonPositiveDisablesTimeout ==
  configTimeout <= 0 =>
    /\ \A s \in SocketIds : idleTimers[s] = <<>>
    /\ lastOp.op # "timeout"

\* C7: every inbound command, of a known type or not, re-arms the sender's
\* idle timeout with the full interval, and a timeout disconnects a
\* registered connection only when a full interval has passed since its last
\* inbound command.
C7_InputResetsIdleTimer ==
  /\ (lastOp.op = "timeout" /\ lastOp.pid # 0) =>
       lastOp.arg >= timeoutInterval
  /\ (lastOp.op = "input" /\ timeoutInterval > 0) =>
       idleTimers[lastOp.sock] = <<timeoutInterval>>

\* a connection is timed out while a command it sent is still queued
C7_Witness ==
  /\ lastOp.op = "timeout"
  /\ lastOp.pid # 0
  /\ \E k \in 1 .. Len(playerInputQueues) :
       /\ playerInputQueues[k].playerId = lastOp.pid
       /\ playerInputQueues[k].commands # <<>>

\* C8: the disconnect handler of a registered connection deletes its registry
\* entry and removes its player from the World, and changes no other
\* registry entry and no other player.
C8_DisconnectRemovesEntity ==
  [][departed'.playerId # 0 =>
       LET s == departed'.id
           p == departed'.playerId
       IN /\ s \in DOMAIN connectedPlayers
          /\ connectedPlayers[s].playerId = p
          /\ p \in DOMAIN players
          /\ connectedPlayers' =
               [t \in DOMAIN connectedPlayers \ {s} |-> connectedPlayers[t]]
          /\ players' = [q \in DOMAIN players \ {p} |-> players[q]]]_vars

\* a connection was disconnected while another one stays registered
C8_Witness ==
  /\ departed.playerId # 0
  /\ DOMAIN connectedPlayers # {}
  /\ DOMAIN players = RegisteredIds
  /\ departed.playerId \notin DOMAIN players

\* C9: onPlayerTimeout never runs for a socket that was disconnected before.
C9_NoTimeoutAfterDisconnect ==
  ~(lastOp.op = "timeout" /\ lastOp.pid = 0)

\* C10: the playerEvent that tells the other connections of a departure
\* carries the id of the departing player and its disconnect time.
C10_DepartureEventCarriesId ==
  departed.playerId # 0 =>
    \A i \in 1 .. Len(outbox) :
      (outbox[i].ev = "playerEvent" /\ outbox[i].to # {}) =>
        /\ Len(outbox[i].payload) = 1
        /\ outbox[i].payload[1].playerId = departed.playerId
        /\ outbox[i].payload[1].disconnectTime = departed.disconnectTime
        /\ serverTime > 0 => outbox[i].payload[1].disconnectTime # 0

\* C11: playerInputQueues holds a queue only for players whose connection
\* is still registered: the queue of a player goes when its registry entry
\* is destroyed by a disconnect or by an idle timeout.
C11_QueueOnlyForRegistered ==
  \A k \in 1 .. Len(playerInputQueues) :
    playerInputQueues[k].playerId \in RegisteredIds

\* C12: an inbound command whose type is none of MOVEMENT, ALTER_TILE,
\* COMMUNICATION, INTERACTION is dropped: no queue grows, the World is
\* unchanged, and the sender stays registered with its socket open.
C12_UnknownTypeDropped ==
  [][(lastOp'.op = "input"
        /\ lastOp'.arg \notin {MOVEMENT, ALTER_TILE, COMMUNICATION,
                                INTERACTION}) =>
       /\ playerInputQueues' = playerInputQueues
       /\ UNCHANGED worldVars
       /\ connectedPlayers' = connectedPlayers
       /\ lastOp'.sock \in DOMAIN connectedPlayers'
       /\ sockStatus' = sockStatus
       /\ sockStatus'[lastOp'.sock] = "connected"]_vars

\* a command of an unknown type arrived while a command of the same sender
\* was waiting in its queue
C12_Witness ==
  /\ lastOp.op = "input"
  /\ lastOp.arg = UnknownType
  /\ \E k \in 1 .. Len(playerInputQueues) :
       /\ playerInputQueues[k].playerId = lastOp.pid
       /\ Len(playerInputQueues[k].commands) = 1

\* C13: the ids assigned on connect are strictly increasing integers that
\* start at 1: a connection gets an id larger than every id assigned before
\* it, registered connections have different ids, and the id of a
\* connection that has left is not assigned again.
C13_IdsStrictlyIncreasing ==
  [][/\ lastPlayerID' >= lastPlayerID
     /\ lastOp'.op = "connect" =>
          /\ lastOp'.pid > lastPlayerID
          /\ lastPlayerID = 0 => lastOp'.pid = 1
          /\ lastPlayerID' = lastOp'.pid
          /\ lastOp'.pid \notin RegisteredIds
          /\ connectedPlayers'[lastOp'.sock].playerId = lastOp'.pid
          /\ \A k \in 1 .. Len(playerInputQueues) :
               playerInputQueues[k].playerId < lastOp'.pid]_vars

\* a connection got id 2 after the connection with id 1 had left
C13_Witness ==
  /\ lastOp.op = "connect"
  /\ lastOp.pid = 2
  /\ RegisteredIds = {2}

\* C16: the spawn search of a connect ends, also in a World without a
\* passable tile, so that the connect handler returns.
C16_SpawnSearchTerminates ==
  lastOp.op = "connect" => ~hung

\* C17: a connect puts the player on a cell of the World whose tile can be
\* walked on and that holds no tree, under the id assigned to the connection.
C17_SpawnOnPassableCell ==
  (lastOp.op = "connect" /\ ~hung) =>
    LET p == lastOp.pid
    IN /\ p \in DOMAIN players
       /\ players[p] \in Cells
       /\ TileData(tileMap[players[p]]) = 0
       /\ objectMap[players[p]] = Undefined
       /\ connectedPlayers[lastOp.sock].playerId = p
       /\ playerEvent[lastOp.sock].playerId = p
       /\ p = lastPlayerID

\* a player was spawned in a World that has a tree on a grass tile
C17_Witness ==
  /\ lastOp.op = "connect"
  /\ ~hung
  /\ lastOp.pid \in DOMAIN players
  /\ \E c \in Cells : tileMap[c] = GRASS /\ objectMap[c] = TREE

\* C14: isPassable returns false, as a value, for every coordinate outside
\* the World: x < 0, x >= width, y < 0 or y >= height.
C14_OutOfBoundsIsFalse ==
  (call.fn = "isPassable" /\ <<call.x, call.y>> \notin Cells) =>
    /\ ~call.threw
    /\ call.value = FALSE

\* C15: for a cell of the World and any direction argument, isPassable
\* returns true exactly when the TileData value of the cell's tile is 0 and
\* the object map holds no object on the cell, whatever the direction.
C15_PassableIffWalkableAndFree ==
  (call.fn = "isPassable" /\ <<call.x, call.y>> \in Cells) =>
    /\ ~call.threw
    /\ call.value = (/\ TileData(tileMap[<<call.x, call.y>>]) = 0
                     /\ objectMap[<<call.x, call.y>>] = Undefined)

\* isPassable was called with a direction that is no arrow key on a stone
\* cell without an object, where the rest of the World is grass under trees
C15_Witness ==
  /\ call.fn = "isPassable"
  /\ <<call.x, call.y>> \in Cells
  /\ call.d = 5
  /\ call.value
  /\ tileMap[<<call.x, call.y>>] = STONE
  /\ \E c \in Cells : objectMap[c] = TREE

\* C18: a Tree that starts with durability d grants loot on the d-th
\* interaction and on no earlier one, and grants it once: an interaction
\* after the durability has reached 0 grants nothing more.
C18_LootGrantedOnce ==
  tree.initial \in MinDurability .. MaxDurability =>
    tree.grants = (IF tree.interactions >= tree.initial THEN 1 ELSE 0)

\* C19: a move that completes leaves the character on a cell of the World
\* whose tile can be walked on and that holds no object, another cell than
\* before; a Move towards a cell that is impassable or outside the World
\* begins no move, and the position changes in no other way.
C19_MovesStayPassable ==
  [][/\ (call'.fn = "step" /\ call'.value) =>
          LET at == <<mover'.x, mover'.y>>
          IN /\ at \in Cells
             /\ TileData(tileMap'[at]) = 0
             /\ objectMap'[at] = Undefined
             /\ at # <<mover.x, mover.y>>
     /\ (call'.fn = "step" /\ ~call'.value) => mover' = mover
     /\ call'.fn = "move" =>
          LET dest == <<call'.x, call'.y>>
              blocked == \/ dest \notin Cells
                         \/ TileData(At(tileMap, dest[1], dest[2])) # 0
                         \/ At(objectMap, dest[1], dest[2]) # Undefined
          IN /\ <<mover'.x, mover'.y>> = <<mover.x, mover.y>>
             /\ blocked => mover' = mover
             /\ (~blocked /\ ~mover.moving) =>
                  /\ mover'.moving
                  /\ <<mover'.tx, mover'.ty>> = dest]_vars

\* a move was completed in a World that has a tree and a water tile
C19_Witness ==
  /\ call.fn = "step"
  /\ call.value
  /\ \E c \in Cells : objectMap[c] = TREE
  /\ \E c \in Cells : tileMap[c] = WATER

\* C20: a Chest that requires k unlockers is opened exactly when the k-th
\* distinct player interacts with it, and the client shows it open once it
\* has been told of that interaction and not before; an interaction by a
\* player already counted changes neither the unlock count nor the opened
\* state.
C20_ChestOpensAtKthUnlocker ==
  /\ [][call'.fn = "chest" =>
          /\ chest'.opened =
               (Cardinality(chest'.interactors) >= chest'.required)
          /\ chest'.count =
               Min(Cardinality(chest'.interactors), chest'.required)
          /\ chest'.by \in chest.interactors =>
               /\ chest'.count = chest.count
               /\ chest'.opened = chest.opened
          /\ (chest'.opened /\ ~chest.opened) =>
               /\ chest'.by \notin chest.interactors
               /\ Cardinality(chest'.interactors) = chest'.required]_vars
  /\ [](chest.frameOpen =
          (chest.opened /\ \A i \in 1 .. Len(chest.told) : chest.told[i] # 2))

\* a client was told that a player already counted interacted again with a
\* chest that requires two unlockers and has one
C20_Witness ==
  /\ call.fn = "interactWithChest"
  /\ call.d = 1
  /\ chest.required = 2
  /\ chest.count = 1
  /\ chest.interactors = {chest.by}
  /\ chest.told = <<>>
  /\ ~chest.opened
  /\ ~chest.frameOpen

\* C21: changeTile(x, y, t) on a coordinate of the World overwrites the cell
\* (x, y) with t, leaves every other cell as it was and reports the one
\* change [x, y, t]; on any other coordinate it changes no cell and reports
\* nothing.
C21_ChangeTileOneCell ==
  [][call'.fn = "changeTile" =>
       LET c == <<call'.x, call'.y>>
       IN /\ ~call'.threw
          /\ objectMap' = objectMap
          /\ IF c \in Cells
               THEN /\ tileMap' = [e \in Cells |->
                                    IF e = c THEN call'.d ELSE tileMap[e]]
                    /\ Len(outbox') = 1
                    /\ outbox'[1].ev = "worldUpdate"
                    /\ outbox'[1].payload =
                         <<[tiles |-> <<<<call'.x, call'.y, call'.d>>>>]>>
               ELSE /\ tileMap' = tileMap
                    /\ outbox' = <<>>]_vars

\* a water cell of a World that is grass elsewhere was changed to a bridge
C21_Witness ==
  /\ call.fn = "changeTile"
  /\ call.value
  /\ call.d = BRIDGE
  /\ tileMap[<<call.x, call.y>>] = BRIDGE
  /\ \A c \in Cells \ {<<call.x, call.y>>} : tileMap[c] = GRASS

\* C22: after generation and any tile changes, whatever their tileId, every
\* cell of the tile map holds a tile type.
C22_TilesRecognized ==
  \A c \in DOMAIN tileMap : tileMap[c] \in RecognizedTiles

\* the messages of an outbox that carry the event name
Sent(box, name) == SelectSeq(box, LAMBDA m : m.ev = name)

\* C23: the buffered payloads are flushed at most every other tick: no two
\* ticks in a row both emit an update.
C23_NoUpdateOnConsecutiveTicks ==
  [][~(/\ lastOp.op = "tick"
       /\ Sent(outbox, "update") # <<>>
       /\ lastOp'.op = "tick"
       /\ Sent(outbox', "update") # <<>>)]_vars

\* C27: a connect sends one initWorld, to the new connection only, with the
\* id assigned to the connection and a player list that holds this id; the
\* other connections get the playerEvent of the join and no initWorld.
C27_InitWorldToNewConnectionOnly ==
  lastOp.op = "connect" =>
    LET inits == Sent(outbox, "initWorld")
        joins == Sent(outbox, "playerEvent")
    IN /\ Len(inits) = 1
       /\ inits[1].to = {lastOp.sock}
       /\ inits[1].payload[1].id = lastOp.pid
       /\ lastOp.pid \in inits[1].payload[1].players
       /\ Len(joins) = 1
       /\ joins[1].to = Connected \ {lastOp.sock}
       /\ joins[1].payload[1].playerId = lastOp.pid
       /\ joins[1].payload[1].disconnectTime = 0

\* C29: an inbound command of a known type appends one command at the tail
\* of the sender's queue and re-arms the sender's idle timer; the World, the
\* registry, the tick count and the queues of the other players stay as
\* they were.
C29_InputTouchesOwnQueueOnly ==
  [][(lastOp'.op = "input"
        /\ lastOp'.arg \in {MOVEMENT, ALTER_TILE, COMMUNICATION,
                             INTERACTION}) =>
       /\ UNCHANGED worldVars
       /\ connectedPlayers' = connectedPlayers
       /\ gameTick' = gameTick
       /\ Len(playerInputQueues') = Len(playerInputQueues)
       /\ \A k \in 1 .. Len(playerInputQueues) :
            LET old == playerInputQueues[k]
                new == playerInputQueues'[k]
            IN /\ new.playerId = old.playerId
               /\ IF old.playerId = lastOp'.pid
                    THEN /\ Len(new.commands) = Len(old.commands) + 1
                         /\ SubSeq(new.commands, 1, Len(old.commands))
                              = old.commands
                         /\ new.commands[Len(new.commands)].pid = lastOp'.pid
                         /\ new.commands[Len(new.commands)].type
                              = lastOp'.arg
                    ELSE new.commands = old.commands
       /\ \A s \in SocketIds \ {lastOp'.sock} :
            /\ idleTimers'[s] = idleTimers[s]
            /\ idleHandle'[s] = idleHandle[s]]_vars

\* the second player sent a second command while the first player's queue
\* was empty
C29_Witness ==
  /\ lastOp.op = "input"
  /\ lastOp.arg = MOVEMENT
  /\ lastOp.pid = 2
  /\ Len(playerInputQueues) = 2
  /\ Len(playerInputQueues[2].commands) = 2
  /\ playerInputQueues[1].commands = <<>>

\* C24: when the snapshot named at initialisation loads, the tile map is
\* the snapshot's and the object map is generated all the same: it holds
\* every cell, and isPassable answers on the loaded World as on a generated
\* one.
C24_LoadedWorldHasObjectMap ==
  disk.kind = "snapshot" =>
    /\ call.fn = "initWorldData" =>
         /\ ~call.threw
         /\ tileMap = disk.tiles
         /\ DOMAIN objectMap = Cells
    /\ call.fn = "isPassable" =>
         /\ ~call.threw
         /\ call.value = (/\ TileData(tileMap[<<call.x, call.y>>]) = 0
                          /\ At(objectMap, call.x, call.y) = Undefined)

\* C25: when the snapshot named at initialisation cannot be read or parsed,
\* initWorldData still returns: a tile map and an object map are generated
\* and the new tile map is handed to storage.
C25_FailedLoadFallsBack ==
  (call.fn = "initWorldData" /\ disk.kind \in {"missing", "corrupt"}) =>
    /\ ~call.threw
    /\ ~call.value
    /\ DOMAIN tileMap = Cells
    /\ \A c \in Cells : tileMap[c] \in Tiles
    /\ DOMAIN objectMap = Cells
    /\ \A c \in Cells : objectMap[c] = TREE => tileMap[c] = GRASS
    /\ outbox = <<[ev |-> "writeFile", to |-> {}, payload |-> <<tileMap>>]>>

\* a World with a tree was generated after a file that is no JSON
C25_Witness ==
  /\ call.fn = "initWorldData"
  /\ disk.kind = "corrupt"
  /\ ~call.threw
  /\ \E c \in DOMAIN objectMap : objectMap[c] = TREE

\* C26: the scheduler goes from stopped to running on start and back to
\* stopped on a stop: the handler that runs after a stop was requested is
\* no tick.
C26_NoTickAfterStop ==
  [][lastOp.op = "stop" => lastOp'.op # "tick"]_vars

\* C30: onPlayerDisconnected for a socket without a registry entry removes
\* no player from the World and changes neither the registry nor a queue,
\* and the tick timer stays armed.
C30_UntrackedDisconnectIsNoOp ==
  [][lastOp'.op = "disconnectUntracked" =>
       /\ players' = players
       /\ connectedPlayers' = connectedPlayers
       /\ playerInputQueues' = playerInputQueues
       /\ intervals' = intervals
       /\ ~hung']_vars

\* onPlayerDisconnected ran for a socket without an entry while another
\* socket was registered and its player was in the World
C30_Witness ==
  /\ lastOp.op = "disconnectUntracked"
  /\ lastOp.sock \notin DOMAIN connectedPlayers
  /\ DOMAIN connectedPlayers # {}
  /\ DOMAIN players = RegisteredIds
  /\ intervals > 0

\* C31: on the client a playerEvent with a nonzero disconnectTime leaves the
\* player map without that playerId and adds no player, also when the join
\* of that id was handled before; any other playerEvent object puts that
\* playerId in the player map.
C31_ClientPlayerEvent ==
  [][(received'.name = "playerEvent" /\ received'.event.defined) =>
       LET event == received'.event
       IN IF event.disconnectTime # 0
            THEN /\ event.playerId \notin DOMAIN playerMap'
                 /\ DOMAIN playerMap' \subseteq DOMAIN playerMap
                 /\ DOMAIN playerMap' = DOMAIN playerMap \ {event.playerId}
            ELSE /\ DOMAIN playerMap' = DOMAIN playerMap \cup {event.playerId}
                 /\ playerMap'[event.playerId] = Sprite(event.x, event.y)
                 /\ ~received'.threw]_vars

\* a leave was handled for an id whose join was handled before
C31_Witness ==
  /\ received.name = "playerEvent"
  /\ received.event.defined
  /\ received.event.disconnectTime # 0
  /\ received.event.playerId \in received.joined
  /\ ~received.threw
  /\ playerMap # <<>>

\* C32: whatever connects, inputs and timeouts have run, every socket has at
\* most one pending idle timeout: resetIdleTimeout clears the pending one
\* before it arms the next.
C32_OneIdleTimerPerSocket ==
  \A s \in SocketIds : Len(idleTimers[s]) <= 1

\* an input re-armed the timeout of a socket after time had passed on the
\* one armed before, while a second socket has its own timeout pending
C32_Witness ==
  /\ lastOp.op = "input"
  /\ serverTime # 0
  /\ idleTimers[lastOp.sock] = <<timeoutInterval>>
  /\ \E t \in SocketIds \ {lastOp.sock} :
       Len(idleTimers[t]) = 1 /\ idleTimers[t][1] < timeoutInterval

\* C33: whenever no handler is running the registry and the World agree: the
\* player ids recorded in connectedPlayers are the ids of the World's
\* players, one player for each registered connection and no player without
\* one.
C33_RegistryAgreesWithWorld ==
  ~hung =>
    /\ RegisteredIds = DOMAIN players
    /\ Cardinality(DOMAIN connectedPlayers) = Cardinality(DOMAIN players)

\* a connection was registered after another one had been disconnected
C33_Witness ==
  /\ ~hung
  /\ lastOp.op = "connect"
  /\ DOMAIN players = {lastOp.pid}
  /\ \E t \in SocketIds : sockStatus[t] = "closed"

\* C34: every firing of the tick timer advances the tick count by one, with
\* or without a registered connection, and leaves the outgoing buffer empty;
\* every update message carries one entry, whose tick number is the number
\* of firings that came before it, so that the tick numbers of successive
\* messages increase.
C34_TickCountAndUpdates ==
  [][lastOp'.op = "tick" =>
       /\ gameTick' = gameTick + 1
       /\ outgoingBuffer' = <<>>
       /\ Len(Sent(outbox', "update")) <= 1
       /\ \A i \in 1 .. Len(Sent(outbox', "update")) :
            LET buffer == Sent(outbox', "update")[i].payload[1]
            IN /\ Len(buffer) = 1
               /\ buffer[1].t = stepCount
               /\ buffer[1].t = gameTick]_vars

\* C35: no enqueued command is applied in more than one tick, also when a
\* command raises an error in a tick: of two firings of the tick timer that
\* follow one another the second applies no command the first one applied,
\* and a command that a tick applied is queued no longer, unless the process
\* exits with that tick.
C35_NoCommandAppliedTwice ==
  /\ [][(lastOp.op = "tick" /\ lastOp'.op = "tick") =>
          \A i \in 1 .. Len(tickLog), j \in 1 .. Len(tickLog') :
            ~(/\ tickLog[i].ev = "apply"
              /\ tickLog'[j].ev = "apply"
              /\ tickLog[i].n = tickLog'[j].n)]_vars
  /\ [](lastOp.op = "tick" =>
          \A i \in 1 .. Len(tickLog) :
            tickLog[i].ev = "apply" =>
              \/ tickLog[i].n \notin QueuedCommands(playerInputQueues)
              \/ exited)

\* a tick applied a command and then a command raised an error: the command
\* applied is still queued, and no tick follows
C35_Witness ==
  /\ lastOp.op = "tick"
  /\ exited
  /\ \E i \in 1 .. Len(tickLog) :
       /\ tickLog[i].ev = "apply"
       /\ tickLog[i].n \in QueuedCommands(playerInputQueues)

\* C36: no command is applied on behalf of a player after its connection
\* was disconnected: every command a tick applies belongs to a player whose
\* connection is registered when the tick runs.
C36_NoCommandAfterDisconnect ==
  [][lastOp'.op = "tick" =>
       \A i \in 1 .. Len(tickLog') :
         tickLog'[i].ev = "apply" => tickLog'[i].pid \in RegisteredIds]_vars

\* C37: however often start is called, at most one tick timer is armed: a
\* start on a scheduler that runs arms no second timer.
C37_OneTickTimer ==
  intervals <= 1
====
